---- MODULE Spec2Model ----
(***************************************************************************)
(* Model of the RAG ingestion / indexing / retrieval engine of             *)
(* gabriel1407/Chatbot_IA:                                                 *)
(*   application/services/rag_service.py            (RAGService)           *)
(*   infrastructure/vector_store/chroma_vector_store_repository.py         *)
(*   infrastructure/embeddings/ai_provider_embedding_service.py            *)
(*   domain/entities/document.py, domain/value_objects/search_query.py     *)
(*   infrastructure/ai/{openai,gemini,ollama}_adapter.py (embed_texts)     *)
(*   routes/rag_routes.py, core/exceptions/http_handlers.py,               *)
(*   core/config/dependencies.py                  (the HTTP boundary)      *)
(*   core/deduplication_cache.py, services/channel_adapters.py             *)
(*                                   (WhatsApp message deduplication)      *)
(*   gunicorn.conf.py                (worker processes and threads)        *)
(*                                                                         *)
(* Strings are sequences of one-character strings, so that emptiness,      *)
(* whitespace stripping, separator search and sanitising are computed.     *)
(* An Optional[...] argument is a set: {} is None, {v} is the value v.     *)
(* Similarities, distances and thresholds are in tenths (7 is 0.7).        *)
(***************************************************************************)
EXTENDS Integers, Sequences, FiniteSets, TLC

(***************************************************************************)
(* Bounds of the exploration.                                              *)
(***************************************************************************)
MaxChunks == 2
\* the number of times the index service creates a collection under one name
MaxGenerations == 2
\* the length of the texts handed to the chunker alone
MaxTextLen == 4
\* the create-or-get round trips the history counts for one tenant id
MaxIssued == 2

(***************************************************************************)
(* Python string helpers.                                                  *)
(***************************************************************************)
IsWhitespace(c) == c \in {" ", "\n", "\t"}

RECURSIVE LStrip(_)
LStrip(s) == IF s # <<>> /\ IsWhitespace(Head(s)) THEN LStrip(Tail(s)) ELSE s

RECURSIVE RStrip(_)
RStrip(s) ==
    IF s # <<>> /\ IsWhitespace(s[Len(s)])
    THEN RStrip(SubSeq(s, 1, Len(s) - 1))
    ELSE s

\* str.strip()
Strip(s) == RStrip(LStrip(s))

\* bool(s) for a str: the empty string is falsy
Truthy(s) == s # <<>>

StartsWith(s, p) == Len(p) <= Len(s) /\ SubSeq(s, 1, Len(p)) = p

\* re.search(re.escape(sep), text) for a non-empty literal sep
Contains(text, sep) ==
    \E i \in 1..(Len(text) - Len(sep) + 1) : SubSeq(text, i, i + Len(sep) - 1) = sep

RECURSIVE Join(_, _)
\* sep.join(parts)
Join(parts, sep) ==
    IF parts = <<>> THEN <<>>
    ELSE IF Len(parts) = 1 THEN parts[1]
    ELSE parts[1] \o sep \o Join(Tail(parts), sep)

RECURSIVE Words(_, _, _)
\* str.split() with no argument: the maximal runs of non-whitespace
Words(rest, cur, out) ==
    IF rest = <<>> THEN (IF cur = <<>> THEN out ELSE Append(out, cur))
    ELSE IF IsWhitespace(Head(rest))
         THEN Words(Tail(rest), <<>>, IF cur = <<>> THEN out ELSE Append(out, cur))
         ELSE Words(Tail(rest), Append(cur, Head(rest)), out)

(***************************************************************************)
(* Chunker: RecursiveCharacterTextSplitter(chunk_size, chunk_overlap,      *)
(* separators=["\n\n", "\n", ". ", " ", ""]) as configured by RAGService,  *)
(* with the library defaults keep_separator=True, strip_whitespace=True,   *)
(* length_function=len.                                                    *)
(***************************************************************************)
Separators == << <<"\n", "\n">>, <<"\n">>, <<".", " ">>, <<" ">>, <<>> >>

RECURSIVE SplitAt(_, _, _, _)
\* re.split("(sep)", text) with every separator glued to the piece after it
SplitAt(rest, sep, cur, out) ==
    IF rest = <<>> THEN Append(out, cur)
    ELSE IF StartsWith(rest, sep)
         THEN SplitAt(SubSeq(rest, Len(sep) + 1, Len(rest)), sep, sep, Append(out, cur))
         ELSE SplitAt(Tail(rest), sep, Append(cur, Head(rest)), out)

\* _split_text_with_regex(text, separator, keep_separator=True)
_split_text_with_regex(text, sep) ==
    LET splits == IF sep # <<>>
                  THEN SplitAt(text, sep, <<>>, <<>>)
                  ELSE [i \in 1..Len(text) |-> <<text[i]>>]
    IN  SelectSeq(splits, LAMBDA s : s # <<>>)

\* TextSplitter._join_docs: join, strip, None (here <<>>) when nothing is left
_join_docs(docs, sep) == Strip(Join(docs, sep))

RECURSIVE PopWhile(_, _, _, _, _, _)
\* the inner while loop of _merge_splits: drop leading pieces of current_doc
PopWhile(cur, total, len, seplen, cs, co) ==
    IF cur # <<>>
       /\ (total > co
           \/ (total + len + (IF Len(cur) > 0 THEN seplen ELSE 0) > cs /\ total > 0))
    THEN PopWhile(Tail(cur),
                  total - (Len(cur[1]) + (IF Len(cur) > 1 THEN seplen ELSE 0)),
                  len, seplen, cs, co)
    ELSE <<cur, total>>

RECURSIVE MergeLoop(_, _, _, _, _, _, _, _)
MergeLoop(splits, i, docs, cur, total, sep, cs, co) ==
    IF i > Len(splits)
    THEN LET doc == _join_docs(cur, sep)
         IN  IF doc # <<>> THEN Append(docs, doc) ELSE docs
    ELSE LET d == splits[i]
             len == Len(d)
             seplen == Len(sep)
             over == total + len + (IF Len(cur) > 0 THEN seplen ELSE 0) > cs
             flush == over /\ Len(cur) > 0
             doc == _join_docs(cur, sep)
             docs1 == IF flush /\ doc # <<>> THEN Append(docs, doc) ELSE docs
             popped == IF flush THEN PopWhile(cur, total, len, seplen, cs, co)
                       ELSE <<cur, total>>
             cur1 == Append(popped[1], d)
             total1 == popped[2] + len + (IF Len(cur1) > 1 THEN seplen ELSE 0)
         IN  MergeLoop(splits, i + 1, docs1, cur1, total1, sep, cs, co)

\* TextSplitter._merge_splits(splits, separator)
_merge_splits(splits, sep, cs, co) == MergeLoop(splits, 1, <<>>, <<>>, 0, sep, cs, co)

\* the separator RecursiveCharacterTextSplitter._split_text picks: the first
\* one that is "" or occurs in the text, else the last one
ChosenIndex(text, seps) ==
    LET hits == {i \in 1..Len(seps) : seps[i] = <<>> \/ Contains(text, seps[i])}
    IN  IF hits = {} THEN Len(seps)
        ELSE CHOOSE i \in hits : \A j \in hits : i <= j

RECURSIVE _split_text(_, _, _, _)
RECURSIVE SplitLoop(_, _, _, _, _, _, _)

\* the for loop over splits in _split_text
SplitLoop(splits, i, good, final, newSeps, cs, co) ==
    IF i > Len(splits)
    THEN IF good # <<>> THEN final \o _merge_splits(good, <<>>, cs, co) ELSE final
    ELSE LET s == splits[i]
         IN  IF Len(s) < cs
             THEN SplitLoop(splits, i + 1, Append(good, s), final, newSeps, cs, co)
             ELSE LET final1 == IF good # <<>>
                                THEN final \o _merge_splits(good, <<>>, cs, co)
                                ELSE final
                      final2 == IF newSeps = <<>>
                                THEN Append(final1, s)
                                ELSE final1 \o _split_text(s, newSeps, cs, co)
                  IN  SplitLoop(splits, i + 1, <<>>, final2, newSeps, cs, co)

\* RecursiveCharacterTextSplitter._split_text(text, separators)
_split_text(text, seps, cs, co) ==
    LET k == ChosenIndex(text, seps)
        separator == seps[k]
        newSeps == IF separator # <<>> /\ Contains(text, separator)
                   THEN SubSeq(seps, k + 1, Len(seps))
                   ELSE <<>>
    IN  SplitLoop(_split_text_with_regex(text, separator), 1, <<>>, <<>>, newSeps, cs, co)

\* self._splitter.split_text(text)
split_text(text, cs, co) == _split_text(text, Separators, cs, co)


(***************************************************************************)
(* Inputs of the explored calls.                                           *)
(***************************************************************************)
\* tenant ids: two that differ only in '-' versus '_', and an unrelated one
TenantIds == { <<"a", "-", "b">>, <<"a", "_", "b">>, <<"c">> }
DocumentIds == {"d1", "d2"}
\* document ids in the order the index lists them among equal distances
DocumentOrder == <<"d1", "d2", "h1", "h2", "h3", "h4">>
\* user_id: Optional[str]
UserIds == { {}, {""}, {"u1"} }
\* texts to ingest: empty, whitespace only, one word with a trailing blank,
\* and a word longer than the small chunk size
Texts == { <<>>, <<" ">>, <<"x", " ">>, <<"y", "y", "y">> }
QueryTexts == { <<>>, <<" ">>, <<"x">>, <<"y", " ", " ", "y">> }
\* top_k: Optional[int]
TopKs == { {}, {-1}, {0}, {1}, {2} }
\* min_similarity: Optional[float], in tenths
MinSimilarities == { {}, {-1}, {0}, {5}, {10}, {11} }
\* what goes wrong with a collaborator during one call (at most one thing):
\* the Embedding Provider raises, answers with no vector at all, with one
\* vector too few or one too many; or the first or the second round trip of
\* the call to the index service fails
Faults == {"none", "embed_fail", "embed_empty", "embed_short", "embed_long",
           "index_1", "index_2"}
\* what the Embedding Provider answers to one embed_texts(texts) request
EmbedOutcome(fault) ==
    CASE fault = "embed_fail" -> "fail"
      [] fault = "embed_empty" -> "empty"
      [] fault = "embed_short" -> "short"
      [] fault = "embed_long" -> "long"
      [] OTHER -> "ok"
\* which index-service round trip of the call fails (0: none)
FailAt(fault) ==
    CASE fault = "index_1" -> 1 [] fault = "index_2" -> 2 [] fault = "index_3" -> 3
      [] OTHER -> 0

\* DocumentChunk.metadata of a chunk handed to add_chunks: an empty dict,
\* the dict ingest_text builds, and dicts that carry a key of the record
ChunkMetadatas ==
    { <<>>,
      [tenant_id |-> <<"c">>, user_id |-> "unknown", title |-> ""],
      [document_id |-> "d2"],
      [chunk_index |-> 1],
      [tenant_id |-> <<"a", "-", "b">>] }

\* the worker processes gunicorn starts, each with its own repository
\* instance, and the threads (requests in progress) that are followed in steps
Workers == {1, 2}
ThreadIds == {1, 2}
\* WhatsApp message ids
MessageIds == {"wamid1", "wamid2", "wamid3"}

(***************************************************************************)
(* Deployment configuration (core/config/settings.py) and the arguments    *)
(* RAGService is constructed with.                                         *)
(***************************************************************************)
rag_chunk_size == 500
rag_chunk_overlap == 50
rag_top_k == 5
rag_min_similarity == 7

\* Python's "x or default" for an Optional[int]: None and 0 are falsy
OrInt(opt, default) ==
    IF opt = {} \/ opt = {0} THEN default ELSE CHOOSE v \in opt : TRUE

\* Python's "x or default" for an Optional[str]: None and "" are falsy
OrStr(opt, default) ==
    IF opt = {} \/ opt = {""} THEN default ELSE CHOOSE v \in opt : TRUE

\* (_chunk_size, _chunk_overlap) arguments RAGService.__init__ is called with
ConstructorArgs == { <<{}, {}>>, <<{2}, {1}>> }
\* the same, with an overlap equal to the size, an explicit overlap of 0, and
\* an overlap above the size
ConfigArgs == ConstructorArgs \cup { <<{2}, {2}>>, <<{2}, {0}>>, <<{2}, {3}>> }
\* the same, for the chunker alone
ChunkerArgs == ConstructorArgs \cup { <<{3}, {1}>>, <<{4}, {2}>> }
\* every text of at most MaxTextLen characters over a letter, a blank, a
\* full stop and a newline
Alphabet == {"x", " ", ".", "\n"}
ChunkerTexts == UNION {[1..n -> Alphabet] : n \in 0..MaxTextLen}

VARIABLES
    _chunk_size,     \* RAGService._chunk_size
    _chunk_overlap,  \* RAGService._chunk_overlap
    chroma,         \* the index service: collection name -> [id, items]
    _collections,    \* ChromaVectorStoreRepository._collections of each worker
                    \* process: tenant id -> handle
    last,           \* the call that has just completed: arguments, outcome, round trips
    prev,           \* history: what the call before that one did to the index
    rag_enabled,    \* settings.rag_enabled
    _instances,     \* DependencyContainer._instances: the registered names
    ai_provider,    \* settings.ai_provider
    threads,        \* the requests in progress: position and local variables
    uploads,        \* the files under UPLOAD_FOLDER: filename -> content
    processed_messages,  \* the rows of the deduplication store
    issued          \* history: the create-or-get round trips the caller has
                    \* seen issued for each tenant id

vars == <<_chunk_size, _chunk_overlap, chroma, _collections, last, prev,
          rag_enabled, _instances, ai_provider, threads, uploads,
          processed_messages, issued>>

\* the configuration, fixed once the application has started
config == <<_chunk_size, _chunk_overlap, rag_enabled, _instances, ai_provider>>

\* what the requests that run in steps read and write
concurrent == <<threads, uploads, processed_messages>>

(***************************************************************************)
(* ChromaVectorStoreRepository                                             *)
(***************************************************************************)
Lower(c) ==
    CASE c = "A" -> "a" [] c = "B" -> "b" [] c = "C" -> "c" [] OTHER -> c

\* str.replace(old, new) for one-character old and new
Replace(s, old, new) == [i \in 1..Len(s) |-> IF s[i] = old THEN new ELSE s[i]]

TENANT_COLLECTION_PREFIX == <<"t", "e", "n", "a", "n", "t", "_">>
COLLECTION_SUFFIX == <<"_", "c", "h", "u", "n", "k", "s">>

\* _get_collection_name
_get_collection_name(tenant_id) ==
    LET replaced == Replace(Replace(tenant_id, "-", "_"), " ", "_")
        safe_tenant_id == [i \in 1..Len(replaced) |-> Lower(replaced[i])]
    IN  TENANT_COLLECTION_PREFIX \o safe_tenant_id \o COLLECTION_SUFFIX

CollectionNames == {_get_collection_name(t) : t \in TenantIds}

\* the names of the round trips to the index service
ChromaCalls == {"get_or_create_collection", "add", "query", "delete", "get",
                "delete_collection"}

\* the running call: the index and cache as it has changed them so far, the
\* round trips and collaborator methods it has invoked, the exception it is
\* raising ("" when none) and its return value
BeginOn(worker, failAt) ==
    [chroma |-> chroma, _collections |-> _collections[worker], calls |-> <<>>,
     wheres |-> <<>>, exc |-> "", ret |-> 0, failAt |-> failAt,
     status_code |-> 0, code |-> ""]

\* the same, in the first worker process
Begin(failAt) == BeginOn(1, failAt)

Raise(ctx, exc) == [ctx EXCEPT !.exc = exc]
Return(ctx, v) == [ctx EXCEPT !.ret = v]
Called(ctx, name) == [ctx EXCEPT !.calls = Append(@, name)]
\* a round trip to the index service that takes a where argument (an
\* Optional[dict]: {} is None)
CalledWhere(ctx, name, where) ==
    [ctx EXCEPT !.calls = Append(@, name), !.wheres = Append(@, where)]

\* the next round trip to the index service is the one that fails
IndexDown(ctx) ==
    Len(SelectSeq(ctx.calls, LAMBDA c : c \in ChromaCalls)) + 1 = ctx.failAt

\* a cached handle refers to the collection the index service holds under that name
HandleLive(ctx, tenant_id) ==
    /\ ctx._collections[tenant_id] # 0
    /\ ctx.chroma[_get_collection_name(tenant_id)].id = ctx._collections[tenant_id]

\* _get_or_create_collection that only gets: a collection the index service
\* does not hold is an error
_get_collection_only(ctx, tenant_id) ==
    IF ctx._collections[tenant_id] # 0 THEN ctx
    ELSE LET name == _get_collection_name(tenant_id)
             c1 == Called(ctx, "get_or_create_collection")
             id == ctx.chroma[name].id
         IN  IF IndexDown(ctx) \/ id = 0 THEN Raise(c1, "VectorStoreException")
             ELSE [c1 EXCEPT !._collections[tenant_id] = id]

\* _get_or_create_collection that does not look into the cache
_get_or_create_collection_uncached(ctx, tenant_id) ==
    LET name == _get_collection_name(tenant_id)
        c1 == Called(ctx, "get_or_create_collection")
        absent == ctx.chroma[name].id = 0
        id == IF absent THEN ctx.chroma[name].made + 1 ELSE ctx.chroma[name].id
    IN  IF IndexDown(ctx) THEN Raise(c1, "VectorStoreException")
        ELSE [c1 EXCEPT !.chroma[name].id = id,
                        !.chroma[name].made = IF absent THEN @ + 1 ELSE @,
                        !._collections[tenant_id] = id]

\* _get_or_create_collection
_get_or_create_collection(ctx, tenant_id) ==
    IF ctx._collections[tenant_id] # 0 THEN ctx
    ELSE LET name == _get_collection_name(tenant_id)
             c1 == Called(ctx, "get_or_create_collection")
             absent == ctx.chroma[name].id = 0
             \* a collection the index service creates gets an id of its own
             id == IF absent THEN ctx.chroma[name].made + 1 ELSE ctx.chroma[name].id
         IN  IF IndexDown(ctx) THEN Raise(c1, "VectorStoreException")
             ELSE [c1 EXCEPT !.chroma[name].id = id,
                             !.chroma[name].made = IF absent THEN @ + 1 ELSE @,
                             !._collections[tenant_id] = id]

\* {**a, **b}
MergeDicts(a, b) ==
    [k \in DOMAIN a \cup DOMAIN b |-> IF k \in DOMAIN b THEN b[k] ELSE a[k]]

\* _build_ids: "{document_id}:{chunk_index}"
BuildId(c) == <<c.document_id, ":", c.chunk_index>>

\* _build_metadatas
BuildMetadata(c, tenant_id) ==
    MergeDicts([document_id |-> c.document_id, chunk_index |-> c.chunk_index,
                tenant_id |-> tenant_id],
               c.metadata)

(***************************************************************************)
(* Vectors.  The provider's and the index's own embedding models are       *)
(* external; a stand-in maps a text to a direction (its length), and the   *)
(* cosine distance of two vectors grows with the gap of their directions.  *)
(***************************************************************************)
ProviderVector(text) == [by |-> "provider", dir |-> Len(text)]
DefaultVector(text) == [by |-> "chroma_default", dir |-> Len(text) + 1]

CosineDistance(u, v) ==
    LET gap == IF u.dir >= v.dir THEN u.dir - v.dir ELSE v.dir - u.dir
    IN  IF 5 * gap > 20 THEN 20 ELSE 5 * gap


(***************************************************************************)
(* The AI provider adapters (infrastructure/ai) behind get_ai_provider().  *)
(***************************************************************************)
AIProviders == {"openai", "gemini", "ollama"}

\* the names of the round trips to the Embedding Provider
ProviderCalls == {"embeddings.create", "embed_content", "client.embed"}

\* an embedding the provider left empty: []
EmptyVector == [by |-> "provider", dir |-> -1]

\* the vectors a batch request for texts is answered with under outcome embOut
ProviderVectors(texts, embOut) ==
    LET n == Len(texts)
        m == CASE embOut = "empty" -> 0
               [] embOut = "short" -> n - 1
               [] embOut = "long" -> n + 1
               [] OTHER -> n
    IN  [i \in 1..m |-> ProviderVector(IF i <= n THEN texts[i] ELSE <<>>)]

\* OpenAIAdapter.embed_texts: one embeddings.create for the whole list
OpenAIAdapter_embed_texts(ctx, texts, embOut) ==
    LET c1 == Called(ctx, "embeddings.create")
    IN  IF embOut = "fail" THEN Raise(c1, "APIError")
        ELSE Return(c1, ProviderVectors(texts, embOut))

\* GeminiAdapter.embed_texts: one embed_content for the whole list
GeminiAdapter_embed_texts(ctx, texts, embOut) ==
    LET c1 == Called(ctx, "embed_content")
    IN  IF embOut = "fail" THEN Raise(c1, "NotImplementedError")
        ELSE Return(c1, ProviderVectors(texts, embOut))

RECURSIVE OllamaLoop(_, _, _, _, _)
\* the for loop of OllamaAdapter.embed_texts: one client.embed per text; an
\* answer without embedding data appends []
OllamaLoop(ctx, texts, i, embeddings, embOut) ==
    IF i > Len(texts) THEN Return(ctx, embeddings)
    ELSE LET c1 == Called(ctx, "client.embed")
             missing == embOut = "empty" \/ (embOut = "short" /\ i = Len(texts))
             v == IF missing THEN EmptyVector ELSE ProviderVector(texts[i])
         IN  IF embOut = "fail" THEN Raise(c1, "NotImplementedError")
             ELSE OllamaLoop(c1, texts, i + 1, Append(embeddings, v), embOut)

\* OllamaAdapter.embed_texts
OllamaAdapter_embed_texts(ctx, texts, embOut) == OllamaLoop(ctx, texts, 1, <<>>, embOut)

\* self._provider.embed_texts(texts) of the configured provider
embed_texts(ctx, texts, embOut) ==
    LET c1 == Called(ctx, "embed_texts")
    IN  CASE ai_provider = "gemini" -> GeminiAdapter_embed_texts(c1, texts, embOut)
          [] ai_provider = "ollama" -> OllamaAdapter_embed_texts(c1, texts, embOut)
          [] OTHER -> OpenAIAdapter_embed_texts(c1, texts, embOut)

(***************************************************************************)
(* AIProviderEmbeddingService                                              *)
(***************************************************************************)
\* generate_embeddings_batch that swallows the provider's error and answers
\* with no vectors
generate_embeddings_batch_swallowing(ctx, texts, embOut) ==
    IF texts = <<>> THEN Return(ctx, <<>>)
    ELSE LET e == embed_texts(ctx, texts, embOut)
         IN  IF e.exc # "" THEN Return([e EXCEPT !.exc = ""], <<>>) ELSE e

\* generate_embeddings_batch
generate_embeddings_batch(ctx, texts, embOut) ==
    IF texts = <<>> THEN Return(ctx, <<>>)
    ELSE LET e == embed_texts(ctx, texts, embOut)
         IN  IF e.exc # "" THEN Raise(e, "EmbeddingServiceException") ELSE e

\* generate_embedding: the vector of text, [] (here <<>>) when there is none
generate_embedding(ctx, text, embOut) ==
    IF Strip(text) = <<>> THEN Return(ctx, <<>>)
    ELSE LET e == embed_texts(ctx, <<text>>, embOut)
         IN  IF e.exc # "" THEN Raise(e, "EmbeddingServiceException")
             ELSE Return(e, IF e.ret # <<>> /\ e.ret[1] # EmptyVector
                            THEN <<e.ret[1]>> ELSE <<>>)

(***************************************************************************)
(* ChromaVectorStoreRepository, continued                                  *)
(***************************************************************************)
\* collection.add(ids, documents, metadatas, embeddings): the records the
\* collection holds afterwards; a record whose id the collection already
\* holds is ignored, and without embeddings the index embeds the documents
\* with its own model
CollectionAdd(items, chunks, tenant_id, withEmbeddings) ==
    items \cup
    { [id |-> BuildId(chunks[i]),
       document |-> chunks[i].content,
       metadata |-> BuildMetadata(chunks[i], tenant_id),
       embedding |-> IF withEmbeddings
                     THEN CHOOSE v \in chunks[i].embedding : TRUE
                     ELSE DefaultVector(chunks[i].content)]
      : i \in {j \in 1..Len(chunks) :
                  \A it \in items : it.id # BuildId(chunks[j])} }

\* add_chunks
add_chunks(ctx0, chunks, tenant_id) ==
    LET ctx == Called(ctx0, "add_chunks")
    IN  IF chunks = <<>> THEN Return(ctx, TRUE)
        ELSE LET g == _get_or_create_collection(ctx, tenant_id)
                 name == _get_collection_name(tenant_id)
                 withEmbeddings == chunks[1].embedding # {}
                 a == Called(g, "add")
             IN  IF g.exc # "" THEN Raise(g, "VectorStoreException")
                 ELSE IF \/ IndexDown(g)
                         \/ ~HandleLive(g, tenant_id)
                         \* a list of embeddings with None or [] in it is rejected
                         \/ (withEmbeddings
                             /\ \E i \in 1..Len(chunks) :
                                   chunks[i].embedding \in {{}, {EmptyVector}})
                      THEN Raise(a, "VectorStoreException")
                      ELSE Return([a EXCEPT !.chroma[name].items =
                                       CollectionAdd(@, chunks, tenant_id, withEmbeddings)],
                                  TRUE)

\* a where filter matches the metadata of a record
Matches(metadata, where) ==
    \A k \in DOMAIN where : k \in DOMAIN metadata /\ metadata[k] = where[k]

\* position of a record in the index's own order among equal distances
DocumentRank(d) == CHOOSE i \in 1..Len(DocumentOrder) : DocumentOrder[i] = d
Before(a, b, q) ==
    LET da == CosineDistance(q, a.embedding)
        db == CosineDistance(q, b.embedding)
        ra == DocumentRank(a.id[1])
        rb == DocumentRank(b.id[1])
    IN  \/ da < db
        \/ da = db /\ ra < rb
        \/ da = db /\ ra = rb /\ a.id[3] < b.id[3]

RECURSIVE Nearest(_, _, _)
\* collection.query(n_results=k, where=...): the k nearest records, nearest first
Nearest(items, q, k) ==
    IF items = {} \/ k <= 0 THEN <<>>
    ELSE LET first == CHOOSE a \in items : \A b \in items \ {a} : Before(a, b, q)
         IN  <<first>> \o Nearest(items \ {first}, q, k - 1)

\* SearchQuery.get_normalized_query
get_normalized_query(query_text) == Join(Words(query_text, <<>>, <<>>), <<" ">>)

\* the body of the loop of search that turns the rows of the index into
\* (chunk, similarity) pairs and drops those under the threshold
Similarity(distance) == 10 - distance

\* a threshold that only ranks: nothing is dropped
BelowThresholdNever(similarity, min_similarity) == FALSE

BelowThreshold(similarity, min_similarity) == similarity < min_similarity

ToResults(rows, q, min_similarity) ==
    LET pairs == [i \in 1..Len(rows) |->
                    [chunk |-> [content |-> rows[i].document,
                                chunk_index |-> rows[i].metadata["chunk_index"],
                                document_id |-> rows[i].metadata["document_id"],
                                metadata |-> rows[i].metadata,
                                embedding |-> {}],
                     similarity |-> Similarity(CosineDistance(q, rows[i].embedding))]]
    IN  SelectSeq(pairs, LAMBDA p : ~BelowThreshold(p.similarity, min_similarity))

\* a use_where that hands every filter on, the empty one too
UseWhereAlways(where_filter) == {where_filter}

\* use_where = where_filter or None
UseWhere(where_filter) == IF DOMAIN where_filter # {} THEN {where_filter} ELSE {}

\* the exception search raises for an exception e raised inside its try block
SearchRaises(e) == "VectorStoreException"

\* search
search(ctx0, query, tenant_id, embOut) ==
    LET ctx == Called(ctx0, "search")
        g == _get_or_create_collection(ctx, tenant_id)
        name == _get_collection_name(tenant_id)
        e == generate_embedding(g, get_normalized_query(query.query_text), embOut)
        \* without a provider vector the index embeds the query text itself
        q == IF e.ret # <<>> THEN e.ret[1]
             ELSE DefaultVector(get_normalized_query(query.query_text))
        where_filter == [k \in DOMAIN query.filters \ {"tenant_id"} |-> query.filters[k]]
        c == CalledWhere(e, "query", UseWhere(where_filter))
        matching == {it \in c.chroma[name].items : Matches(it.metadata, where_filter)}
    IN  IF g.exc # "" THEN Raise(g, SearchRaises(g.exc))
        ELSE IF e.exc # "" THEN Raise(e, SearchRaises(e.exc))
        ELSE IF IndexDown(e) \/ ~HandleLive(e, tenant_id)
             THEN Raise(c, SearchRaises("ChromaError"))
             ELSE Return(c, ToResults(Nearest(matching, q, query.top_k), q,
                                      query.min_similarity))

\* delete_by_document_id that removes the first chunk of the document only
delete_first_chunk_only(ctx0, document_id, tenant_id) ==
    LET ctx == Called(ctx0, "delete_by_document_id")
        g == _get_or_create_collection(ctx, tenant_id)
        name == _get_collection_name(tenant_id)
        c == CalledWhere(g, "delete", {[document_id |-> document_id]})
    IN  IF g.exc # "" THEN Raise(g, "VectorStoreException")
        ELSE IF IndexDown(g) \/ ~HandleLive(g, tenant_id)
             THEN Raise(c, "VectorStoreException")
             ELSE Return([c EXCEPT !.chroma[name].items =
                              {it \in @ : ~Matches(it.metadata,
                                                   [document_id |-> document_id,
                                                    chunk_index |-> 0])}],
                         TRUE)

\* delete_by_document_id
delete_by_document_id(ctx0, document_id, tenant_id) ==
    LET ctx == Called(ctx0, "delete_by_document_id")
        g == _get_or_create_collection(ctx, tenant_id)
        name == _get_collection_name(tenant_id)
        c == CalledWhere(g, "delete", {[document_id |-> document_id]})
    IN  IF g.exc # "" THEN Raise(g, "VectorStoreException")
        ELSE IF IndexDown(g) \/ ~HandleLive(g, tenant_id)
             THEN Raise(c, "VectorStoreException")
             ELSE Return([c EXCEPT !.chroma[name].items =
                              {it \in @ : ~Matches(it.metadata, [document_id |-> document_id])}],
                         TRUE)

\* delete_tenant_collection: deleting a collection the index service does not
\* hold is an error of the index service
delete_tenant_collection(ctx0, tenant_id) ==
    LET ctx == Called(ctx0, "delete_tenant_collection")
        name == _get_collection_name(tenant_id)
        c == Called(ctx, "delete_collection")
    IN  IF IndexDown(ctx) \/ ctx.chroma[name].id = 0
        THEN Raise(c, "VectorStoreException")
        ELSE Return([c EXCEPT !.chroma[name].id = 0, !.chroma[name].items = {},
                              !._collections[tenant_id] = 0],
                    TRUE)

\* count_chunks that counts the documents of the collection, not the chunks
count_documents(ctx0, tenant_id, user_id) ==
    LET ctx == Called(ctx0, "count_chunks")
        g == _get_or_create_collection(ctx, tenant_id)
        name == _get_collection_name(tenant_id)
        c == CalledWhere(g, "get", {})
        items == c.chroma[name].items
    IN  IF g.exc # "" THEN Raise(g, "VectorStoreException")
        ELSE IF IndexDown(g) \/ ~HandleLive(g, tenant_id)
             THEN Raise(c, "VectorStoreException")
             ELSE Return(c, Cardinality({it.metadata["document_id"] : it \in items}))

\* count_chunks of the repository
count_chunks(ctx0, tenant_id, user_id) ==
    LET ctx == Called(ctx0, "count_chunks")
        g == _get_or_create_collection(ctx, tenant_id)
        name == _get_collection_name(tenant_id)
        filtered == user_id # {} /\ user_id # {""}
        where == [user_id |-> CHOOSE u \in user_id : TRUE, tenant_id |-> tenant_id]
        c == CalledWhere(g, "get", IF filtered THEN {where} ELSE {})
        items == c.chroma[name].items
        ids == IF filtered THEN {it \in items : Matches(it.metadata, where)}
               ELSE items
    IN  IF g.exc # "" THEN Raise(g, "VectorStoreException")
        ELSE IF IndexDown(g) \/ ~HandleLive(g, tenant_id)
             THEN Raise(c, "VectorStoreException")
             ELSE Return(c, Cardinality(ids))


(***************************************************************************)
(* Domain objects                                                          *)
(***************************************************************************)
\* Document.__post_init__ accepts the content
Document_post_init(content) == Truthy(content)

\* DocumentChunk.__post_init__ accepts the chunk
DocumentChunk_post_init(content, chunk_index) == Truthy(content) /\ chunk_index >= 0

\* SearchQuery.__post_init__ accepts the query
SearchQuery_post_init(query_text, top_k, min_similarity) ==
    /\ Truthy(query_text) /\ Truthy(Strip(query_text))
    /\ ~(top_k <= 0)
    /\ 0 <= min_similarity /\ min_similarity <= 10

(***************************************************************************)
(* RAGService                                                              *)
(***************************************************************************)
\* a retrieve that ignores the top_k of the call
EffectiveTopKConfigured(top_k) == rag_top_k

\* the top_k retrieve builds its SearchQuery with
EffectiveTopK(top_k) == OrInt(top_k, rag_top_k)

\* the min_similarity retrieve builds its SearchQuery with
EffectiveMinSimilarity(min_similarity) ==
    IF min_similarity # {} THEN CHOOSE v \in min_similarity : TRUE
    ELSE rag_min_similarity

\* the chunks ingest_text builds from the pieces of the splitter
BuildChunks(texts, tenant_id, document_id, user_id) ==
    [i \in 1..Len(texts) |->
        [content |-> texts[i],
         chunk_index |-> i - 1,
         document_id |-> document_id,
         metadata |-> [tenant_id |-> tenant_id,
                       user_id |-> OrStr(user_id, "unknown"),
                       title |-> ""],
         embedding |-> {}]]

\* for i, emb in enumerate(embeddings): chunks[i].embedding = emb
AttachEmbeddings(chunks, embeddings) ==
    [i \in 1..Len(chunks) |->
        IF i <= Len(embeddings)
        THEN [chunks[i] EXCEPT !.embedding = {embeddings[i]}]
        ELSE chunks[i]]

\* ingest_text
ingest_text(ctx, tenant_id, document_id, text, user_id, embOut) ==
    LET texts == split_text(text, _chunk_size, _chunk_overlap)
        chunks == BuildChunks(texts, tenant_id, document_id, user_id)
        e == generate_embeddings_batch(ctx, texts, embOut)
        a == add_chunks(e, AttachEmbeddings(chunks, e.ret), tenant_id)
    IN  IF ~Document_post_init(text) THEN Raise(ctx, "ValueError")
        ELSE IF \E i \in 1..Len(texts) : ~DocumentChunk_post_init(texts[i], i - 1)
             THEN Raise(ctx, "ValueError")
        ELSE IF e.exc # "" THEN e
        ELSE IF Len(e.ret) > Len(chunks) THEN Raise(e, "IndexError")
        ELSE IF a.exc # "" THEN a
        ELSE Return(a, Len(chunks))

\* delete_document
delete_document(ctx, document_id, tenant_id) ==
    delete_by_document_id(ctx, document_id, tenant_id)

\* retrieve
retrieve(ctx, query_text, tenant_id, top_k, user_id, min_similarity, embOut) ==
    LET filters == IF user_id # {} /\ user_id # {""}
                   THEN [user_id |-> CHOOSE u \in user_id : TRUE]
                   ELSE <<>>
        sq == [query_text |-> query_text,
               top_k |-> EffectiveTopK(top_k),
               filters |-> filters,
               min_similarity |-> EffectiveMinSimilarity(min_similarity)]
    IN  IF ~SearchQuery_post_init(sq.query_text, sq.top_k, sq.min_similarity)
        THEN Raise(ctx, "ValueError")
        ELSE search(ctx, sq, tenant_id, embOut)

\* count_chunks
RAGService_count_chunks(ctx, tenant_id, user_id) == count_chunks(ctx, tenant_id, user_id)

(***************************************************************************)
(* The HTTP boundary: routes/rag_routes.py, answered through the handlers  *)
(* of core/exceptions/http_handlers.py.  Requests are authenticated.       *)
(***************************************************************************)
\* uploaded file names: a text file, one whose name holds a blank, and a
\* file of an extension the route does not support
Filenames == { <<"f", ".", "t", "x", "t">>, <<"f", " ", ".", "t", "x", "t">>,
               <<"f", ".", "m", "d">> }

\* raise APIException(message, status_code, code)
RaiseAPI(ctx, status_code, code) ==
    [ctx EXCEPT !.exc = "APIException", !.status_code = status_code, !.code = code]

\* the code of a ChatbotBaseException ("" for any other exception)
ChatbotExceptionCode(exc) ==
    CASE exc = "VectorStoreException" -> "VECTOR_STORE_ERROR"
      [] exc = "EmbeddingServiceException" -> "EMBEDDING_SERVICE_ERROR"
      [] OTHER -> ""

\* register_http_error_handlers: the status and the code of the response
register_http_error_handlers(r) ==
    IF r.exc = "" THEN [status |-> 200, code |-> "OK"]
    ELSE IF r.exc = "APIException" THEN [status |-> r.status_code, code |-> r.code]
    ELSE IF ChatbotExceptionCode(r.exc) # ""
         THEN [status |-> 500, code |-> ChatbotExceptionCode(r.exc)]
         ELSE [status |-> 500, code |-> "UNHANDLED_ERROR"]

\* _get_rag_service: DependencyContainer.get("RAGService")
_get_rag_service(ctx) ==
    IF "RAGService" \notin _instances THEN Raise(ctx, "KeyError") ELSE ctx

\* _get_tenant_id_from_request: a request without tenant id is refused
_get_tenant_id_from_request(ctx, tenant_id) ==
    IF ~Truthy(tenant_id) THEN RaiseAPI(ctx, 400, "MISSING_TENANT_ID") ELSE ctx

\* the "if not settings.rag_enabled" of a route
RagDisabledCheck(ctx) ==
    IF ~rag_enabled THEN RaiseAPI(ctx, 503, "RAG_DISABLED") ELSE ctx

\* the public methods class RAGService defines
RAGServiceMethods == {"ingest_text", "delete_document", "retrieve", "count_chunks"}

\* werkzeug's secure_filename, on blanks: a blank becomes an underscore
secure_filename(filename) == Replace(filename, " ", "_")

\* os.path.splitext(filename)[1].lower()
Ext(filename) ==
    LET dots == {i \in 1..Len(filename) : filename[i] = "."}
    IN  IF dots = {} THEN <<>>
        ELSE LET k == CHOOSE i \in dots : \A j \in dots : j <= i
             IN  [i \in 1..(Len(filename) - k + 1) |-> Lower(filename[k + i - 1])]

SupportedExtensions ==
    { <<".", "p", "d", "f">>, <<".", "d", "o", "c", "x">>, <<".", "d", "o", "c">>,
      <<".", "t", "x", "t">> }

\* hashlib.md5(s).hexdigest(): equal strings give equal digests, and the
\* digests of the strings explored here differ
md5(s) ==
    CASE s = <<"a", "-", "b", ":", "f", ".", "t", "x", "t">> -> "h1"
      [] s = <<"a", "-", "b", ":", "f", "_", ".", "t", "x", "t">> -> "h2"
      [] s = <<"a", "_", "b", ":", "f", ".", "t", "x", "t">> -> "h3"
      [] OTHER -> "h4"

\* POST /ingest
rag_bp_ingest_text(ctx, tenant_id, document_id, text, user_id, embOut) ==
    LET t == _get_tenant_id_from_request(ctx, tenant_id)
        g == _get_rag_service(t)
    IN  IF t.exc # "" THEN t
        ELSE IF ~Truthy(text) THEN RaiseAPI(t, 400, "VALIDATION_ERROR")
        ELSE IF g.exc # "" THEN g
        ELSE ingest_text(g, tenant_id, document_id, text, user_id, embOut)

\* the document id POST /ingest/file derives
FileDocumentId(tenant_id, filename) ==
    md5(tenant_id \o <<":">> \o secure_filename(filename))

\* POST /ingest/file that does not delete the earlier chunks of the file
rag_bp_ingest_file_no_delete(ctx, tenant_id, filename, text, user_id, embOut) ==
    LET t == _get_tenant_id_from_request(ctx, tenant_id)
        document_id == FileDocumentId(tenant_id, filename)
        g == _get_rag_service(t)
        i == ingest_text(g, tenant_id, document_id, text, user_id, embOut)
    IN  IF t.exc # "" THEN t
        ELSE IF filename = <<>> THEN RaiseAPI(t, 400, "VALIDATION_ERROR")
        ELSE IF Ext(secure_filename(filename)) \notin SupportedExtensions
             THEN RaiseAPI(t, 400, "UNSUPPORTED_FILE_EXTENSION")
        ELSE IF ~Truthy(text) \/ ~Truthy(Strip(text))
             THEN RaiseAPI(t, 400, "EMPTY_EXTRACTED_TEXT")
        ELSE IF g.exc # "" THEN g
        ELSE IF i.exc # "" THEN i
        ELSE Return(i, [chunks_indexed |-> i.ret, replaced |-> FALSE])

\* POST /ingest/file that puts the index back as it found it when the
\* ingestion fails
rag_bp_ingest_file_with_rollback(ctx, tenant_id, filename, text, user_id, embOut) ==
    LET t == _get_tenant_id_from_request(ctx, tenant_id)
        document_id == FileDocumentId(tenant_id, filename)
        g == _get_rag_service(t)
        d == delete_document(g, document_id, tenant_id)
        i == ingest_text(d, tenant_id, document_id, text, user_id, embOut)
    IN  IF t.exc # "" THEN t
        ELSE IF filename = <<>> THEN RaiseAPI(t, 400, "VALIDATION_ERROR")
        ELSE IF Ext(secure_filename(filename)) \notin SupportedExtensions
             THEN RaiseAPI(t, 400, "UNSUPPORTED_FILE_EXTENSION")
        ELSE IF ~Truthy(text) \/ ~Truthy(Strip(text))
             THEN RaiseAPI(t, 400, "EMPTY_EXTRACTED_TEXT")
        ELSE IF g.exc # "" THEN g
        ELSE IF d.exc # "" THEN d
        ELSE IF i.exc # ""
             THEN [i EXCEPT !.chroma[_get_collection_name(tenant_id)].items =
                               g.chroma[_get_collection_name(tenant_id)].items]
        ELSE Return(i, [chunks_indexed |-> i.ret, replaced |-> d.ret])

\* POST /ingest/file; text is the text extracted from the uploaded file
rag_bp_ingest_file(ctx, tenant_id, filename, text, user_id, embOut) ==
    LET t == _get_tenant_id_from_request(ctx, tenant_id)
        document_id == FileDocumentId(tenant_id, filename)
        g == _get_rag_service(t)
        d == delete_document(g, document_id, tenant_id)
        i == ingest_text(d, tenant_id, document_id, text, user_id, embOut)
    IN  IF t.exc # "" THEN t
        ELSE IF filename = <<>> THEN RaiseAPI(t, 400, "VALIDATION_ERROR")
        ELSE IF Ext(secure_filename(filename)) \notin SupportedExtensions
             THEN RaiseAPI(t, 400, "UNSUPPORTED_FILE_EXTENSION")
        ELSE IF ~Truthy(text) \/ ~Truthy(Strip(text))
             THEN RaiseAPI(t, 400, "EMPTY_EXTRACTED_TEXT")
        ELSE IF g.exc # "" THEN g
        ELSE IF d.exc # "" THEN d
        ELSE IF i.exc # "" THEN i
        ELSE Return(i, [chunks_indexed |-> i.ret, replaced |-> d.ret])

\* GET /search
rag_bp_search(ctx, query_text, tenant_id, user_id, top_k, min_similarity, embOut) ==
    LET t == _get_tenant_id_from_request(ctx, tenant_id)
        e == RagDisabledCheck(t)
        g == _get_rag_service(e)
    IN  IF t.exc # "" THEN t
        ELSE IF ~Truthy(query_text) THEN RaiseAPI(t, 400, "VALIDATION_ERROR")
        ELSE IF e.exc # "" THEN e
        ELSE IF g.exc # "" THEN g
        ELSE retrieve(g, query_text, tenant_id, top_k, user_id, min_similarity, embOut)

\* DELETE /documents/<doc_id>
rag_bp_delete_document(ctx, doc_id, tenant_id) ==
    LET t == _get_tenant_id_from_request(ctx, tenant_id)
        g == _get_rag_service(t)
    IN  IF t.exc # "" THEN t
        ELSE IF g.exc # "" THEN g
        ELSE delete_document(g, doc_id, tenant_id)

\* DELETE /tenant: it calls rag.delete_tenant_data(tenant_id)
rag_bp_delete_tenant(ctx, tenant_id) ==
    LET t == _get_tenant_id_from_request(ctx, tenant_id)
        e == RagDisabledCheck(t)
        g == _get_rag_service(e)
    IN  IF t.exc # "" THEN t
        ELSE IF e.exc # "" THEN e
        ELSE IF g.exc # "" THEN g
        ELSE IF "delete_tenant_data" \notin RAGServiceMethods
             THEN Raise(g, "AttributeError")
             ELSE delete_tenant_collection(g, tenant_id)

\* GET /stats
rag_bp_stats(ctx, tenant_id, user_id) ==
    LET t == _get_tenant_id_from_request(ctx, tenant_id)
        e == RagDisabledCheck(t)
        g == _get_rag_service(e)
    IN  IF t.exc # "" THEN t
        ELSE IF e.exc # "" THEN e
        ELSE IF g.exc # "" THEN g
        ELSE RAGService_count_chunks(g, tenant_id, user_id)

(***************************************************************************)
(* The state machine: one action per public operation of RAGService.  The  *)
(* caller is sequential: it issues a call, looks at the outcome (last),    *)
(* and takes it (Reply) before it issues the next call.                    *)
(***************************************************************************)
NoArgs ==
    [tenant_id |-> <<>>, document_id |-> "", text |-> <<>>, user_id |-> {},
     query_text |-> <<>>, top_k |-> {}, min_similarity |-> {}, fault |-> "none",
     filename |-> <<>>, metadata |-> <<>>, worker |-> 1]

\* a write to the index that the history remembers: a successful ingest_text
\* (n: the count it returned; alone: the tenant's collection held no record
\* before it) or a successful delete_document (n: the records it removed;
\* alone: the collection held no record of another document)
NoWrite == [op |-> "none", tenant_id |-> <<>>, document_id |-> "", n |-> 0,
            alone |-> FALSE]

NoCall == [op |-> "none", args |-> NoArgs, exc |-> "", ret |-> <<>>, calls |-> <<>>,
           wheres |-> <<>>, existed |-> FALSE, write |-> NoWrite,
           status |-> 0, code |-> "", before |-> {}]

Idle == last = NoCall

\* the number of records the index service holds
StoredChunks(index) ==
    LET RECURSIVE Sum(_)
        Sum(names) == IF names = {} THEN 0
                      ELSE LET n == CHOOSE n \in names : TRUE
                           IN  Cardinality(index[n].items) + Sum(names \ {n})
    IN  Sum(DOMAIN index)

\* the records of the collection a tenant id resolves to
Collection(index, tenant_id) == index[_get_collection_name(tenant_id)].items

\* the records stored for a document id in that collection
ChunksOf(index, tenant_id, document_id) ==
    {it \in Collection(index, tenant_id) : it.id[1] = document_id}

\* what the history remembers of a call that completes with outcome r
Written(op, args, r) ==
    LET before == Collection(chroma, args.tenant_id)
        mine == ChunksOf(chroma, args.tenant_id, args.document_id)
    IN  IF op = "ingest_text" /\ r.exc = ""
        THEN [op |-> op, tenant_id |-> args.tenant_id, document_id |-> args.document_id,
              n |-> r.ret, alone |-> before = {}]
        ELSE IF op = "delete_document" /\ r.exc = ""
        THEN [op |-> op, tenant_id |-> args.tenant_id, document_id |-> args.document_id,
              n |-> Cardinality(before) - Cardinality(Collection(r.chroma, args.tenant_id)),
              alone |-> before = mine]
        ELSE NoWrite

\* the call completes: the index and the cache are as the call left them;
\* status and code are those of the HTTP response, when there is one, and
\* before is what a file upload or a DELETE of a document found stored under
\* the document id
FinishOn(worker, op, args, r, status, code) ==
    /\ Idle
    /\ StoredChunks(r.chroma) <= MaxChunks
    /\ chroma' = r.chroma
    /\ _collections' = [_collections EXCEPT ![worker] = r._collections]
    /\ last' = [op |-> op, args |-> args, exc |-> r.exc,
                ret |-> IF r.exc = "" THEN <<r.ret>> ELSE <<>>,
                calls |-> r.calls,
                wheres |-> r.wheres,
                existed |-> /\ args.tenant_id \in TenantIds
                            /\ chroma[_get_collection_name(args.tenant_id)].id # 0,
                write |-> Written(op, args, r),
                status |-> status, code |-> code,
                before |-> IF /\ op \in {"POST ingest/file", "DELETE documents"}
                              /\ args.tenant_id \in TenantIds
                           THEN {it.document :
                                   it \in ChunksOf(chroma, args.tenant_id, args.document_id)}
                           ELSE {}]
    /\ UNCHANGED <<config, prev, concurrent, issued>>

\* the same, in the first worker process
Finish(op, args, r, status, code) == FinishOn(1, op, args, r, status, code)

\* a call of a method of RAGService or of the repository completes
Complete(op, args, r) == Finish(op, args, r, 0, "")

IngestText(tenant_id, document_id, text, user_id, fault) ==
    Complete("ingest_text",
             [NoArgs EXCEPT !.tenant_id = tenant_id, !.document_id = document_id,
                            !.text = text, !.user_id = user_id, !.fault = fault],
             ingest_text(Begin(FailAt(fault)), tenant_id, document_id, text,
                           user_id, EmbedOutcome(fault)))

DeleteDocument(document_id, tenant_id, fault) ==
    Complete("delete_document",
             [NoArgs EXCEPT !.tenant_id = tenant_id, !.document_id = document_id,
                            !.fault = fault],
             delete_document(Begin(FailAt(fault)), document_id, tenant_id))

Retrieve(query_text, tenant_id, top_k, user_id, min_similarity, fault) ==
    Complete("retrieve",
             [NoArgs EXCEPT !.tenant_id = tenant_id, !.query_text = query_text,
                            !.top_k = top_k, !.user_id = user_id,
                            !.min_similarity = min_similarity, !.fault = fault],
             retrieve(Begin(FailAt(fault)), query_text, tenant_id, top_k, user_id,
                         min_similarity, EmbedOutcome(fault)))

CountChunks(tenant_id, user_id, fault) ==
    Complete("count_chunks",
             [NoArgs EXCEPT !.tenant_id = tenant_id, !.user_id = user_id,
                            !.fault = fault],
             RAGService_count_chunks(Begin(FailAt(fault)), tenant_id, user_id))

\* the repository's delete_tenant_collection, called directly
DeleteTenantCollection(tenant_id, fault) ==
    /\ "VectorStoreRepository" \in _instances
    /\ chroma[_get_collection_name(tenant_id)].made < MaxGenerations
    /\ Complete("delete_tenant_collection",
                [NoArgs EXCEPT !.tenant_id = tenant_id, !.fault = fault],
                delete_tenant_collection(Begin(FailAt(fault)), tenant_id))

\* the repository's add_chunks, called directly with one chunk that has no
\* embedding
AddChunks(tenant_id, document_id, metadata, fault) ==
    Complete("add_chunks",
             [NoArgs EXCEPT !.tenant_id = tenant_id, !.document_id = document_id,
                            !.metadata = metadata, !.fault = fault],
             add_chunks(Begin(FailAt(fault)),
                        << [content |-> <<"x">>, chunk_index |-> 0,
                            document_id |-> document_id, metadata |-> metadata,
                            embedding |-> {}] >>,
                        tenant_id))

\* the same operations, served by the RAGService and the repository of one
\* of the worker processes
IngestTextOn(worker, tenant_id, document_id, text, user_id, fault) ==
    FinishOn(worker, "ingest_text",
             [NoArgs EXCEPT !.tenant_id = tenant_id, !.document_id = document_id,
                            !.text = text, !.user_id = user_id, !.fault = fault,
                            !.worker = worker],
             ingest_text(BeginOn(worker, FailAt(fault)), tenant_id, document_id, text,
                         user_id, EmbedOutcome(fault)),
             0, "")

RetrieveOn(worker, query_text, tenant_id, top_k, user_id, min_similarity, fault) ==
    FinishOn(worker, "retrieve",
             [NoArgs EXCEPT !.tenant_id = tenant_id, !.query_text = query_text,
                            !.top_k = top_k, !.user_id = user_id,
                            !.min_similarity = min_similarity, !.fault = fault,
                            !.worker = worker],
             retrieve(BeginOn(worker, FailAt(fault)), query_text, tenant_id, top_k,
                      user_id, min_similarity, EmbedOutcome(fault)),
             0, "")

CountChunksOn(worker, tenant_id, user_id, fault) ==
    FinishOn(worker, "count_chunks",
             [NoArgs EXCEPT !.tenant_id = tenant_id, !.user_id = user_id,
                            !.fault = fault, !.worker = worker],
             RAGService_count_chunks(BeginOn(worker, FailAt(fault)), tenant_id, user_id),
             0, "")

DeleteTenantCollectionOn(worker, tenant_id, fault) ==
    /\ "VectorStoreRepository" \in _instances
    /\ chroma[_get_collection_name(tenant_id)].made < MaxGenerations
    /\ FinishOn(worker, "delete_tenant_collection",
                [NoArgs EXCEPT !.tenant_id = tenant_id, !.fault = fault,
                               !.worker = worker],
                delete_tenant_collection(BeginOn(worker, FailAt(fault)), tenant_id),
                0, "")

\* self._splitter.split_text(text), on its own
SplitText(text) ==
    /\ Idle
    /\ last' = [NoCall EXCEPT !.op = "split_text", !.args.text = text,
                              !.ret = <<split_text(text, _chunk_size, _chunk_overlap)>>]
    /\ UNCHANGED <<config, chroma, _collections, prev, concurrent, issued>>

\* a request completes: the response is the one the error handlers build
Respond(op, args, r) ==
    Finish(op, args, r, register_http_error_handlers(r).status,
           register_http_error_handlers(r).code)

\* str(uuid.uuid4()): an id no stored record carries
uuid4 ==
    LET unused == {i \in 1..Len(DocumentOrder) :
                     /\ DocumentOrder[i] \in DocumentIds
                     /\ \A n \in DOMAIN chroma : \A it \in chroma[n].items :
                           it.id[1] # DocumentOrder[i]}
    IN  IF unused = {} THEN {}
        ELSE {DocumentOrder[CHOOSE i \in unused : \A j \in unused : i <= j]}

PostIngest(tenant_id, text, user_id, fault) ==
    \E document_id \in uuid4 :
        Respond("POST ingest",
                [NoArgs EXCEPT !.tenant_id = tenant_id, !.document_id = document_id,
                               !.text = text, !.user_id = user_id, !.fault = fault],
                rag_bp_ingest_text(Begin(FailAt(fault)), tenant_id, document_id, text,
                                   user_id, EmbedOutcome(fault)))

PostIngestFile(tenant_id, filename, text, user_id, fault) ==
    Respond("POST ingest/file",
            [NoArgs EXCEPT !.tenant_id = tenant_id, !.filename = filename,
                           !.document_id = IF tenant_id \in TenantIds
                                           THEN FileDocumentId(tenant_id, filename)
                                           ELSE "",
                           !.text = text, !.user_id = user_id, !.fault = fault],
            rag_bp_ingest_file(Begin(FailAt(fault)), tenant_id, filename, text,
                               user_id, EmbedOutcome(fault)))

GetSearch(query_text, tenant_id, user_id, top_k, min_similarity, fault) ==
    Respond("GET search",
            [NoArgs EXCEPT !.tenant_id = tenant_id, !.query_text = query_text,
                           !.top_k = top_k, !.user_id = user_id,
                           !.min_similarity = min_similarity, !.fault = fault],
            rag_bp_search(Begin(FailAt(fault)), query_text, tenant_id, user_id, top_k,
                          min_similarity, EmbedOutcome(fault)))

DeleteDocumentRoute(doc_id, tenant_id, fault) ==
    Respond("DELETE documents",
            [NoArgs EXCEPT !.tenant_id = tenant_id, !.document_id = doc_id,
                           !.fault = fault],
            rag_bp_delete_document(Begin(FailAt(fault)), doc_id, tenant_id))

DeleteTenantRoute(tenant_id, fault) ==
    Respond("DELETE tenant",
            [NoArgs EXCEPT !.tenant_id = tenant_id, !.fault = fault],
            rag_bp_delete_tenant(Begin(FailAt(fault)), tenant_id))

GetStats(tenant_id, user_id, fault) ==
    Respond("GET stats",
            [NoArgs EXCEPT !.tenant_id = tenant_id, !.user_id = user_id,
                           !.fault = fault],
            rag_bp_stats(Begin(FailAt(fault)), tenant_id, user_id))

\* the caller takes the outcome of the call
Reply ==
    /\ ~Idle
    /\ last' = NoCall
    /\ UNCHANGED <<config, chroma, _collections, prev, concurrent, issued>>

\* the same, and the history remembers what the call wrote
ReplyRemember ==
    /\ ~Idle
    /\ last' = NoCall
    /\ prev' = last.write
    /\ UNCHANGED <<config, chroma, _collections, concurrent, issued>>

\* the same, and the history counts the create-or-get round trips of the call
ReplyTally ==
    LET t == last.args.tenant_id
        n == Len(SelectSeq(last.calls, LAMBDA c : c = "get_or_create_collection"))
    IN  /\ ~Idle
        /\ issued[t] + n <= MaxIssued
        /\ last' = NoCall
        /\ issued' = [issued EXCEPT ![t] = @ + n]
        /\ UNCHANGED <<config, chroma, _collections, prev, concurrent>>

(***************************************************************************)
(* Requests that run concurrently, in the threads of a worker process      *)
(* (gunicorn.conf.py: worker_class gthread), followed statement by         *)
(* statement.                                                              *)
(***************************************************************************)
\* a thread that serves no request
NoThread ==
    [op |-> "none", pc |-> "idle", tenant_id |-> <<>>, filename |-> <<>>,
     content |-> <<>>, text |-> <<>>, message_id |-> "", collection |-> 0,
     calls |-> <<>>, exc |-> "", ret |-> <<>>]

\* _get_or_create_collection, line 82: if tenant_id in self._collections
GetOrCreate_Lookup(k, tenant_id) ==
    /\ threads[k].pc = "idle"
    /\ threads' = [threads EXCEPT ![k] =
          [NoThread EXCEPT !.op = "_get_or_create_collection",
                           !.tenant_id = tenant_id,
                           !.collection = _collections[1][tenant_id],
                           !.pc = IF _collections[1][tenant_id] # 0
                                  THEN "return" ELSE "create"]]
    /\ UNCHANGED <<config, chroma, _collections, last, prev, uploads,
                   processed_messages, issued>>

\* lines 85-91: collection = self._client.get_or_create_collection(...)
GetOrCreate_Create(k) ==
    LET tenant_id == threads[k].tenant_id
        miss == [BeginOn(1, 0) EXCEPT !._collections[tenant_id] = 0]
        r == _get_or_create_collection(miss, tenant_id)
    IN  /\ threads[k].pc = "create"
        /\ chroma' = r.chroma
        /\ threads' = [threads EXCEPT ![k].collection = r._collections[tenant_id],
                                      ![k].calls = r.calls,
                                      ![k].pc = "store"]
        /\ UNCHANGED <<config, _collections, last, prev, uploads,
                       processed_messages, issued>>

\* line 92: self._collections[tenant_id] = collection
GetOrCreate_Store(k) ==
    /\ threads[k].pc = "store"
    /\ _collections' = [_collections EXCEPT ![1][threads[k].tenant_id] =
                                                threads[k].collection]
    /\ threads' = [threads EXCEPT ![k].pc = "return"]
    /\ UNCHANGED <<config, chroma, last, prev, uploads, processed_messages, issued>>

\* ingest_file, lines 151-158: filename = secure_filename(file.filename);
\* file_path = os.path.join(UPLOAD_FOLDER, filename); file.save(file_path).
\* content is what the uploaded file holds
IngestFile_Save(k, tenant_id, filename, content) ==
    /\ threads[k].pc = "idle"
    /\ rag_enabled
    /\ uploads' = [uploads EXCEPT ![secure_filename(filename)] = content]
    /\ threads' = [threads EXCEPT ![k] =
          [NoThread EXCEPT !.op = "ingest_file", !.tenant_id = tenant_id,
                           !.filename = filename, !.content = content,
                           !.pc = "extract"]]
    /\ UNCHANGED <<config, chroma, _collections, last, prev, processed_messages,
                   issued>>

\* lines 160-172: with open(file_path) as f: text = f.read()
IngestFile_Read(k) ==
    /\ threads[k].pc = "extract"
    /\ threads' = [threads EXCEPT ![k].text = uploads[secure_filename(threads[k].filename)],
                                  ![k].pc = "ingest"]
    /\ UNCHANGED <<config, chroma, _collections, last, prev, uploads,
                   processed_messages, issued>>

\* the request of thread k leaves the index and the cache as its outcome r
\* has them
ThreadFinish(k, r) ==
    /\ threads[k].pc = "ingest"
    /\ StoredChunks(r.chroma) <= MaxChunks
    /\ chroma' = r.chroma
    /\ _collections' = [_collections EXCEPT ![1] = r._collections]
    /\ threads' = [threads EXCEPT ![k].exc = r.exc, ![k].calls = r.calls,
                                  ![k].ret = IF r.exc = "" THEN <<r.ret>> ELSE <<>>,
                                  ![k].pc = "return"]
    /\ UNCHANGED <<config, last, prev, uploads, processed_messages, issued>>

\* lines 174-209: the text is checked, the earlier chunks of the document id
\* are deleted and the text is ingested
IngestFile_Ingest(k) ==
    ThreadFinish(k, rag_bp_ingest_file(BeginOn(1, 0), threads[k].tenant_id,
                                       threads[k].filename, threads[k].text, {}, "ok"))

\* DuplicationCache.is_processed, within the expiry window of the rows: a
\* sqlite3.Error is answered with False
is_processed(message_id, channel, sqlite_error) ==
    IF message_id = "" THEN FALSE
    ELSE IF sqlite_error THEN FALSE
    ELSE <<message_id, channel>> \in processed_messages

\* DuplicationCache.mark_processed: INSERT OR REPLACE; the rows afterwards
mark_processed(message_id, channel) ==
    IF message_id = "" THEN processed_messages
    ELSE processed_messages \cup {<<message_id, channel>>}

\* WhatsAppAdapter.parse_incoming_message, lines 120-125:
\* if self._dedup_cache.is_processed(message_id, "whatsapp"): return None
Parse_IsProcessed(k, message_id, sqlite_error) ==
    /\ threads[k].pc = "idle"
    /\ threads' = [threads EXCEPT ![k] =
          [NoThread EXCEPT !.op = "parse_incoming_message",
                           !.message_id = message_id,
                           !.pc = IF is_processed(message_id, "whatsapp", sqlite_error)
                                  THEN "return" ELSE "mark"]]
    /\ UNCHANGED <<config, chroma, _collections, last, prev, uploads,
                   processed_messages, issued>>

\* lines 127-150: self._dedup_cache.mark_processed(message_id, "whatsapp"),
\* and the IncomingMessage is built and returned
Parse_MarkProcessed(k) ==
    /\ threads[k].pc = "mark"
    /\ processed_messages' = mark_processed(threads[k].message_id, "whatsapp")
    /\ threads' = [threads EXCEPT ![k].ret = <<threads[k].message_id>>,
                                  ![k].pc = "return"]
    /\ UNCHANGED <<config, chroma, _collections, last, prev, uploads, issued>>

\* the request of the thread is over
ThreadReturn(k) ==
    /\ threads[k].pc = "return"
    /\ threads' = [threads EXCEPT ![k] = NoThread]
    /\ UNCHANGED <<config, chroma, _collections, last, prev, uploads,
                   processed_messages, issued>>

\* RAGService.__init__: the splitter refuses an overlap larger than the size
Constructed(size_arg, overlap_arg) ==
    /\ _chunk_size = OrInt(size_arg, rag_chunk_size)
    /\ _chunk_overlap = OrInt(overlap_arg, rag_chunk_overlap)
    /\ _chunk_overlap <= _chunk_size

\* the names initialize_dependencies registers for RAG, in its order
RagDependencies == <<"EmbeddingService", "VectorStoreRepository", "RAGService">>

\* initialize_dependencies: with RAG configured on, the three dependencies
\* are registered unless the construction of the failsAt-th raises (0: none
\* does), which switches rag_enabled off
initialize_dependencies(configured, failsAt) ==
    /\ rag_enabled = (configured /\ failsAt = 0)
    /\ _instances = IF ~configured THEN {}
                    ELSE IF failsAt = 0 THEN {RagDependencies[i] : i \in 1..3}
                    ELSE {RagDependencies[i] : i \in 1..(failsAt - 1)}

\* the application has started; nothing is indexed and no collection is open
Started(args) ==
    /\ \E a \in args : Constructed(a[1], a[2])
    /\ chroma = [n \in CollectionNames |-> [id |-> 0, items |-> {}, made |-> 0]]
    /\ _collections = [w \in Workers |-> [t \in TenantIds |-> 0]]
    /\ last = NoCall
    /\ prev = NoWrite
    /\ threads = [k \in ThreadIds |-> NoThread]
    /\ uploads = [n \in {secure_filename(f) : f \in Filenames} |-> <<>>]
    /\ processed_messages = {}
    /\ issued = [t \in TenantIds |-> 0]

\* RAG is enabled and initialised, with the OpenAI provider
Init ==
    /\ Started(ConstructorArgs)
    /\ initialize_dependencies(TRUE, 0)
    /\ ai_provider = "openai"

\* ingestion, deletion and counting under every tenant and fault, with one
\* retrieval query
Next ==
    \/ \E t \in TenantIds, d \in DocumentIds, x \in Texts, f \in Faults :
          IngestText(t, d, x, {}, f)
    \/ \E d \in DocumentIds, t \in TenantIds, f \in {"none", "index_1", "index_2"} :
          DeleteDocument(d, t, f)
    \/ \E t \in TenantIds, m \in {{}, {0}},
          f \in {"none", "embed_fail", "embed_empty", "index_1", "index_2"} :
          Retrieve(<<"x">>, t, {}, {}, m, f)
    \/ \E t \in TenantIds, f \in {"none", "index_1", "index_2"} :
          CountChunks(t, {}, f)
    \/ Reply

Spec == Init /\ [][Next]_vars

\* one tenant, with every retrieval argument
NextQuery ==
    \/ \E d \in DocumentIds, x \in {<<"x", " ">>, <<"y", "y", "y">>}, u \in UserIds :
          IngestText(<<"c">>, d, x, u, "none")
    \/ \E q \in QueryTexts, k \in TopKs, u \in UserIds, m \in MinSimilarities,
          f \in {"none", "embed_empty"} :
          Retrieve(q, <<"c">>, k, u, m, f)
    \/ \E u \in UserIds : CountChunks(<<"c">>, u, "none")
    \/ \E d \in DocumentIds : DeleteDocument(d, <<"c">>, "none")
    \/ Reply

SpecQuery == Init /\ [][NextQuery]_vars

\* writes and counts under two tenant ids, with the history of the last write
NextHistory ==
    \/ \E t \in {<<"a", "-", "b">>, <<"a", "_", "b">>}, d \in DocumentIds,
          x \in {<<"x", " ">>, <<"y", "y", "y">>}, f \in {"none", "embed_empty"} :
          IngestText(t, d, x, {}, f)
    \/ \E d \in DocumentIds, t \in {<<"a", "-", "b">>, <<"a", "_", "b">>},
          f \in {"none", "index_2"} :
          DeleteDocument(d, t, f)
    \/ \E t \in {<<"a", "-", "b">>, <<"a", "_", "b">>} : CountChunks(t, {}, "none")
    \/ ReplyRemember

SpecHistory == Init /\ [][NextHistory]_vars

\* the HTTP routes, with RAG enabled, disabled by configuration, or disabled
\* because a dependency failed to initialise
InitHttp ==
    /\ Started({<<{2}, {1}>>})
    /\ \E configured \in BOOLEAN, failsAt \in 0..3 :
          initialize_dependencies(configured, failsAt)
    /\ ai_provider = "openai"

HttpTenants == { <<>>, <<"a", "-", "b">>, <<"a", "_", "b">> }

NextHttp ==
    \/ \E t \in HttpTenants, x \in {<<>>, <<"x", " ">>} :
          PostIngest(t, x, {}, "none")
    \/ \E t \in HttpTenants, n \in Filenames \cup {<<>>},
          x \in {<<" ">>, <<"x", " ">>, <<"y", "y", "y">>},
          f \in {"none", "embed_fail", "index_2", "index_3"} :
          PostIngestFile(t, n, x, {}, f)
    \/ \E q \in {<<>>, <<"x">>}, t \in HttpTenants :
          GetSearch(q, t, {}, {}, {0}, "none")
    \/ \E d \in {"d1", "h1"}, t \in HttpTenants :
          DeleteDocumentRoute(d, t, "none")
    \/ \E t \in HttpTenants : DeleteTenantRoute(t, "none")
    \/ \E t \in HttpTenants : GetStats(t, {}, "none")
    \/ \E t \in HttpTenants \ {<<>>}, f \in {"none", "index_1"} :
          DeleteTenantCollection(t, f)
    \/ Reply

SpecHttp == InitHttp /\ [][NextHttp]_vars

\* the chunker alone, over every short text
InitChunker ==
    /\ Started(ChunkerArgs)
    /\ initialize_dependencies(TRUE, 0)
    /\ ai_provider = "openai"

NextChunker ==
    \/ \E x \in ChunkerTexts : SplitText(x)
    \/ Reply

SpecChunker == InitChunker /\ [][NextChunker]_vars

\* ingestion and retrieval under each of the providers
InitProvider ==
    /\ Started(ConstructorArgs)
    /\ initialize_dependencies(TRUE, 0)
    /\ ai_provider \in AIProviders

NextProvider ==
    \/ \E d \in DocumentIds, x \in Texts,
          f \in {"none", "embed_fail", "embed_short"} :
          IngestText(<<"c">>, d, x, {}, f)
    \/ \E f \in {"none", "embed_fail"} :
          Retrieve(<<"x">>, <<"c">>, {}, {}, {0}, f)
    \/ Reply

SpecProvider == InitProvider /\ [][NextProvider]_vars

\* ingestion under each configuration the constructor accepts
InitConfig ==
    /\ Started(ConfigArgs)
    /\ initialize_dependencies(TRUE, 0)
    /\ ai_provider = "openai"

NextConfig ==
    \/ \E d \in DocumentIds, x \in Texts : IngestText(<<"c">>, d, x, {}, "none")
    \/ \E d \in DocumentIds : DeleteDocument(d, <<"c">>, "none")
    \/ Reply

SpecConfig == InitConfig /\ [][NextConfig]_vars

\* one tenant; chunks reach the repository from ingest_text and from direct
\* calls of add_chunks
NextAdd ==
    \/ \E d \in DocumentIds, m \in ChunkMetadatas, f \in {"none", "index_2"} :
          AddChunks(<<"c">>, d, m, f)
    \/ \E d \in DocumentIds, x \in {<<"x", " ">>, <<"y", "y", "y">>} :
          IngestText(<<"c">>, d, x, {}, "none")
    \/ \E d \in DocumentIds : DeleteDocument(d, <<"c">>, "none")
    \/ Reply

SpecAdd == Init /\ [][NextAdd]_vars

\* one tenant served by two worker processes, one call at a time
NextWorkers ==
    \/ \E w \in Workers, d \in DocumentIds :
          IngestTextOn(w, <<"c">>, d, <<"x", " ">>, {}, "none")
    \/ \E w \in Workers : RetrieveOn(w, <<"x">>, <<"c">>, {}, {}, {0}, "none")
    \/ \E w \in Workers : CountChunksOn(w, <<"c">>, {}, "none")
    \/ \E w \in Workers : DeleteTenantCollectionOn(w, <<"c">>, "none")
    \/ Reply

SpecWorkers == Init /\ [][NextWorkers]_vars

\* a sequential series of operations on one repository instance while the
\* index service may fail, with the count of the create-or-get round trips
NextCache ==
    \/ \E t \in {<<"c">>, <<"a", "-", "b">>}, f \in {"none", "index_1"} :
          IngestText(t, "d1", <<"x", " ">>, {}, f)
    \/ \E t \in {<<"c">>, <<"a", "-", "b">>}, f \in {"none", "index_1"} :
          Retrieve(<<"x">>, t, {}, {}, {0}, f)
    \/ \E t \in {<<"c">>, <<"a", "-", "b">>}, f \in {"none", "index_1"} :
          DeleteDocument("d1", t, f)
    \/ \E t \in {<<"c">>, <<"a", "-", "b">>}, f \in {"none", "index_1"} :
          CountChunks(t, {}, f)
    \/ ReplyTally

SpecCache == Init /\ [][NextCache]_vars

\* two threads of one worker process on their way through
\* _get_or_create_collection
NextThreads ==
    \/ \E k \in ThreadIds, t \in {<<"c">>, <<"a", "-", "b">>} : GetOrCreate_Lookup(k, t)
    \/ \E k \in ThreadIds : GetOrCreate_Create(k)
    \/ \E k \in ThreadIds : GetOrCreate_Store(k)
    \/ \E k \in ThreadIds : ThreadReturn(k)

SpecThreads == Init /\ [][NextThreads]_vars

\* two file uploads in progress, one of tenant "c" and one of tenant "a-b"
UploadContents == { <<"x", " ">>, <<"y", "y", "y">> }

NextUpload ==
    \/ \E x \in UploadContents :
          IngestFile_Save(1, <<"c">>, <<"f", ".", "t", "x", "t">>, x)
    \/ \E x \in UploadContents,
          n \in {<<"f", ".", "t", "x", "t">>, <<"f", " ", ".", "t", "x", "t">>} :
          IngestFile_Save(2, <<"a", "-", "b">>, n, x)
    \/ \E k \in ThreadIds : IngestFile_Read(k)
    \/ \E k \in ThreadIds : IngestFile_Ingest(k)
    \/ \E k \in ThreadIds : ThreadReturn(k)

SpecUpload == Init /\ [][NextUpload]_vars

\* two webhook deliveries in progress
NextDedup ==
    \/ \E k \in ThreadIds, m \in MessageIds : Parse_IsProcessed(k, m, FALSE)
    \/ \E k \in ThreadIds : Parse_MarkProcessed(k)
    \/ \E k \in ThreadIds : ThreadReturn(k)

SpecDedup == Init /\ [][NextDedup]_vars


(***************************************************************************)
(* Vocabulary of the properties.                                           *)
(***************************************************************************)
\* the call made the named round trip or invoked the named collaborator method
InCalls(call, name) == \E i \in 1..Len(call.calls) : call.calls[i] = name

\* the (chunk, similarity) pairs a successful retrieve returned
Results(call) == call.ret[1]

\* the vector the index compared the stored vectors with during a retrieve
QueryVector(call) ==
    IF call.args.fault = "embed_empty"
    THEN DefaultVector(get_normalized_query(call.args.query_text))
    ELSE ProviderVector(get_normalized_query(call.args.query_text))

\* the min_similarity in effect for a retrieve: the per-call value, or the
\* configured default when none is passed
MinSimilarityInEffect(call) ==
    IF call.args.min_similarity = {} THEN rag_min_similarity
    ELSE CHOOSE v \in call.args.min_similarity : TRUE

(***************************************************************************)
(* C1.  Tenant isolation: a retrieve scoped to tenant B never returns a    *)
(* chunk that was ingested under another tenant id A (the tenant_id in a   *)
(* stored chunk's metadata is the tenant id ingest_text was called with).  *)
(***************************************************************************)
C1_TenantIsolation ==
    (last.op = "retrieve" /\ last.exc = "")
    => \A i \in 1..Len(Results(last)) :
          Results(last)[i].chunk.metadata["tenant_id"] = last.args.tenant_id

(***************************************************************************)
(* C2.  retrieve never returns a (chunk, similarity) pair whose similarity *)
(* (1 - the cosine distance of the stored record to the query vector) is   *)
(* below the min_similarity in effect for the call.                        *)
(***************************************************************************)
C2_NoResultBelowThreshold ==
    (last.op = "retrieve" /\ last.exc = "")
    => \A i \in 1..Len(Results(last)) :
          LET p == Results(last)[i]
          IN  /\ p.similarity >= MinSimilarityInEffect(last)
              /\ \E it \in Collection(chroma, last.args.tenant_id) :
                    /\ it.metadata = p.chunk.metadata
                    /\ it.document = p.chunk.content
                    /\ p.similarity = 10 - CosineDistance(QueryVector(last), it.embedding)

\* a retrieve under the configured default threshold returned a chunk and
\* left out a stored chunk whose similarity is under the threshold
C2_Witness ==
    /\ last.op = "retrieve" /\ last.exc = ""
    /\ last.args.min_similarity = {} /\ last.args.user_id = {}
    /\ Len(Results(last)) >= 1
    /\ \E it \in Collection(chroma, last.args.tenant_id) :
          10 - CosineDistance(QueryVector(last), it.embedding) < rag_min_similarity

(***************************************************************************)
(* C3.  An ingest_text of a document id that directly follows a            *)
(* delete_document of the same id under the same tenant leaves for that    *)
(* document exactly the chunks of the new text: as many as the call        *)
(* returned, chunk i holding piece i of the new text.                      *)
(***************************************************************************)
C3_ReingestAfterDelete ==
    (/\ last.op = "ingest_text" /\ last.exc = ""
     /\ prev.op = "delete_document"
     /\ prev.tenant_id = last.args.tenant_id
     /\ prev.document_id = last.args.document_id)
    => LET stored == ChunksOf(chroma, last.args.tenant_id, last.args.document_id)
           pieces == split_text(last.args.text, _chunk_size, _chunk_overlap)
       IN  /\ Cardinality(stored) = last.ret[1]
           /\ Len(pieces) = last.ret[1]
           /\ \A it \in stored :
                 /\ it.id[3] \in 0..(Len(pieces) - 1)
                 /\ it.document = pieces[it.id[3] + 1]
                 /\ it.metadata["tenant_id"] = last.args.tenant_id

\* the delete removed an earlier version and the new version has another
\* number of chunks
C3_Witness ==
    /\ last.op = "ingest_text" /\ last.exc = ""
    /\ prev.op = "delete_document"
    /\ prev.tenant_id = last.args.tenant_id
    /\ prev.document_id = last.args.document_id
    /\ prev.n >= 1
    /\ last.ret[1] >= 1
    /\ last.ret[1] # prev.n

(***************************************************************************)
(* C4.  count_chunks(tenant) directly after an ingest_text that put N      *)
(* chunks into the tenant's empty collection returns N, and directly after *)
(* the delete_document of the only document of the collection returns 0.   *)
(***************************************************************************)
C4_CountAfterIngestAndDelete ==
    (/\ last.op = "count_chunks" /\ last.exc = ""
     /\ prev.tenant_id = last.args.tenant_id
     /\ prev.alone)
    => /\ prev.op = "ingest_text" => last.ret[1] = prev.n
       /\ prev.op = "delete_document" => last.ret[1] = 0

\* a count that follows the ingestion of two chunks
C4_Witness ==
    /\ last.op = "count_chunks" /\ last.exc = ""
    /\ prev.op = "ingest_text"
    /\ prev.tenant_id = last.args.tenant_id
    /\ prev.alone
    /\ prev.n = 2
    /\ last.ret[1] = 2

(***************************************************************************)
(* C5.  A retrieve with valid arguments against a tenant whose collection  *)
(* does not exist yet, with no collaborator failing, returns an empty list *)
(* and does not raise, and has created the collection.                     *)
(***************************************************************************)
C5_RetrieveNeverIngested ==
    (/\ last.op = "retrieve"
     /\ ~last.existed
     /\ last.args.fault = "none"
     /\ SearchQuery_post_init(last.args.query_text, EffectiveTopK(last.args.top_k),
                         EffectiveMinSimilarity(last.args.min_similarity)))
    => /\ last.exc = ""
       /\ last.ret = << <<>> >>
       /\ InCalls(last, "get_or_create_collection")
       /\ chroma[_get_collection_name(last.args.tenant_id)].id # 0

C5_Witness ==
    /\ last.op = "retrieve"
    /\ ~last.existed
    /\ last.args.fault = "none"
    /\ last.exc = ""
    /\ last.ret = << <<>> >>
    /\ Collection(chroma, last.args.tenant_id) = {}

(***************************************************************************)
(* C6.  ingest_text with an empty or whitespace-only text returns 0, does  *)
(* not raise and adds nothing to the index.                                *)
(***************************************************************************)
C6_BlankTextYieldsZeroChunks ==
    (last.op = "ingest_text" /\ Strip(last.args.text) = <<>>)
    => /\ last.exc = ""
       /\ last.ret = <<0>>
       /\ ~InCalls(last, "add")

(***************************************************************************)
(* C7.  When the Embedding Provider fails during ingest_text, the call     *)
(* raises the embedding error, add is never invoked, and the index is      *)
(* exactly what it was before the call.                                    *)
(***************************************************************************)
C7_EmbeddingFailureAborts ==
    [][ (/\ last.op = "none"
         /\ last'.op = "ingest_text"
         /\ last'.args.fault = "embed_fail"
         /\ InCalls(last', "embed_texts"))
        => /\ last'.exc = "EmbeddingServiceException"
           /\ ~InCalls(last', "add_chunks")
           /\ ~InCalls(last', "add")
           /\ chroma' = chroma ]_vars

\* the provider failed during an ingest_text into an index that holds chunks
C7_Witness ==
    /\ last.op = "ingest_text"
    /\ last.args.fault = "embed_fail"
    /\ InCalls(last, "embed_texts")
    /\ last.exc = "EmbeddingServiceException"
    /\ StoredChunks(chroma) >= 1

(***************************************************************************)
(* C8.  A provider answer to ingest_text with fewer or more vectors than   *)
(* chunks (or none at all) makes the call fail, and no stored chunk is     *)
(* without a vector the provider generated for it.                         *)
(***************************************************************************)
C8_LengthMismatchIsFatal ==
    /\ (/\ last.op = "ingest_text"
        /\ InCalls(last, "embed_texts")
        /\ last.args.fault \in {"embed_empty", "embed_short", "embed_long"})
       => last.exc # ""
    /\ \A n \in DOMAIN chroma : \A it \in chroma[n].items :
          it.embedding.by = "provider"

(***************************************************************************)
(* C9.  Errors keep their kind: in retrieve a failure of the Embedding     *)
(* Provider surfaces as the embedding error and a failure of the index     *)
(* service as the vector store error.                                      *)
(***************************************************************************)
C9_ErrorsKeepTheirKind ==
    last.op = "retrieve"
    => /\ (last.args.fault = "embed_fail" /\ InCalls(last, "embed_texts"))
          => last.exc = "EmbeddingServiceException"
       /\ (last.args.fault \in {"index_1", "index_2"} /\ last.exc # "")
          => last.exc = "VectorStoreException"

(***************************************************************************)
(* C10.  A retrieve with a blank query text, a top_k of 0 or less, or a    *)
(* min_similarity outside [0, 1] is rejected as a validation failure       *)
(* before any embedding-provider or index call.                            *)
(***************************************************************************)
C10_InvalidArgumentsRejected ==
    (/\ last.op = "retrieve"
     /\ \/ Strip(last.args.query_text) = <<>>
        \/ \E k \in last.args.top_k : k <= 0
        \/ \E m \in last.args.min_similarity : m < 0 \/ m > 10)
    => last.exc = "ValueError" /\ last.calls = <<>>

\* the routes of the HTTP boundary
Routes == {"POST ingest", "POST ingest/file", "GET search", "DELETE documents",
           "DELETE tenant", "GET stats"}

(***************************************************************************)
(* C11.  Deleting or counting what does not exist is not an error: with    *)
(* no collaborator failing, a delete of a document id that has no stored   *)
(* chunk returns false and does not raise, delete_tenant_collection for a  *)
(* tenant without collection returns false and does not raise, and a count *)
(* for a tenant without collection returns 0.                              *)
(***************************************************************************)
C11_AbsentIsNotAnError ==
    /\ (/\ last.op = "DELETE documents"
        /\ InCalls(last, "delete_by_document_id")
        /\ last.args.fault = "none"
        /\ last.before = {})
       => last.exc = "" /\ last.ret = <<FALSE>>
    /\ (/\ last.op = "delete_tenant_collection"
        /\ last.args.fault = "none"
        /\ ~last.existed)
       => last.exc = "" /\ last.ret = <<FALSE>>
    /\ (/\ last.op = "GET stats"
        /\ InCalls(last, "count_chunks")
        /\ last.args.fault = "none"
        /\ ~last.existed)
       => last.exc = "" /\ last.ret = <<0>>

(***************************************************************************)
(* C12.  After a successful upload of a file, the index holds under the    *)
(* document id derived from (tenant_id, filename) exactly the chunks of    *)
(* that upload: as many as the pieces of its text, chunk i holding piece   *)
(* i, whatever earlier uploads of the file had stored.                     *)
(***************************************************************************)
C12_FileUploadReplaces ==
    (last.op = "POST ingest/file" /\ last.status = 200)
    => LET document_id == FileDocumentId(last.args.tenant_id, last.args.filename)
           stored == ChunksOf(chroma, last.args.tenant_id, document_id)
           pieces == split_text(last.args.text, _chunk_size, _chunk_overlap)
       IN  /\ last.ret[1].chunks_indexed = Len(pieces)
           /\ Cardinality(stored) = Len(pieces)
           /\ \A it \in stored :
                 /\ it.id[3] \in 0..(Len(pieces) - 1)
                 /\ it.document = pieces[it.id[3] + 1]

\* an upload replaced chunks of an earlier upload of the file that held
\* another text
C12_Witness ==
    /\ last.op = "POST ingest/file" /\ last.status = 200
    /\ last.before # {}
    /\ \A it \in ChunksOf(chroma, last.args.tenant_id, last.args.document_id) :
          it.document \notin last.before

(***************************************************************************)
(* C13.  A DELETE tenant request for tenant T, with RAG enabled, answers   *)
(* ok and leaves no chunk in T's collection.                               *)
(***************************************************************************)
C13_DeleteTenantRemovesCollection ==
    (/\ last.op = "DELETE tenant"
     /\ rag_enabled
     /\ last.args.tenant_id \in TenantIds)
    => /\ last.status = 200
       /\ Collection(chroma, last.args.tenant_id) = {}

(***************************************************************************)
(* C14.  While RAG is disabled, a request to any RAG route that is not     *)
(* refused as malformed (400) is answered 503 RAG_DISABLED, and no request *)
(* is answered with an internal error (500).                               *)
(***************************************************************************)
C14_DisabledIsServiceUnavailable ==
    (~rag_enabled /\ last.op \in Routes)
    => /\ last.status # 500
       /\ last.status # 400 => (last.status = 503 /\ last.code = "RAG_DISABLED")

(***************************************************************************)
(* C15.  Re-adding a chunk overwrites: after a successful ingest_text the  *)
(* index holds under each id "{document_id}:{i}" piece i of the text just  *)
(* ingested, whether or not the id was stored before (so ingesting the     *)
(* same text again changes nothing, and ingesting another text under the   *)
(* same document id leaves the later content).                             *)
(***************************************************************************)
C15_ReAddOverwrites ==
    (last.op = "ingest_text" /\ last.exc = "")
    => LET pieces == split_text(last.args.text, _chunk_size, _chunk_overlap)
       IN  \A i \in 1..Len(pieces) :
              \E it \in Collection(chroma, last.args.tenant_id) :
                 /\ it.id = <<last.args.document_id, ":", i - 1>>
                 /\ it.document = pieces[i]

\* the stored records a retrieve is matched against: those of the tenant's
\* collection that carry the user id of the call, when it passes one
Candidates(call) ==
    {it \in Collection(chroma, call.args.tenant_id) :
        \A u \in call.args.user_id : u # "" => it.metadata["user_id"] = u}

\* the top_k in effect for a retrieve: the per-call value, or the
\* configured default when none is passed
TopKInEffect(call) ==
    IF call.args.top_k = {} THEN rag_top_k ELSE CHOOSE k \in call.args.top_k : TRUE

\* the stored records whose chunk a retrieve returned
Returned(call) ==
    {it \in Candidates(call) :
        \E i \in 1..Len(Results(call)) :
           /\ Results(call)[i].chunk.document_id = it.id[1]
           /\ Results(call)[i].chunk.chunk_index = it.id[3]
           /\ Results(call)[i].chunk.content = it.document
           /\ Results(call)[i].similarity
                 = 10 - CosineDistance(QueryVector(call), it.embedding)}

(***************************************************************************)
(* C16.  A successful retrieve with a top_k of at least 1 (or the default) *)
(* returns at most top_k pairs, each a different stored chunk of the       *)
(* tenant's collection that matches the user filter, is among the top_k    *)
(* nearest of them and has a similarity of at least min_similarity, in     *)
(* descending order of similarity; and it leaves out no matching chunk     *)
(* that is above the threshold unless top_k others are at least as near.   *)
(***************************************************************************)
C16_TopKAboveThreshold ==
    (/\ last.op = "retrieve" /\ last.exc = ""
     /\ \A k \in last.args.top_k : k >= 1)
    => LET k == TopKInEffect(last)
           q == QueryVector(last)
           Dist(it) == CosineDistance(q, it.embedding)
           S == Candidates(last)
       IN  /\ Len(Results(last)) <= k
           /\ Cardinality(Returned(last)) = Len(Results(last))
           /\ \A it \in Returned(last) :
                 /\ 10 - Dist(it) >= MinSimilarityInEffect(last)
                 /\ Cardinality({o \in S : Dist(o) < Dist(it)}) < k
           /\ \A it \in S \ Returned(last) :
                 \/ 10 - Dist(it) < MinSimilarityInEffect(last)
                 \/ Cardinality({o \in S \ {it} : Dist(o) <= Dist(it)}) >= k
           /\ \A i \in 1..(Len(Results(last)) - 1) :
                 Results(last)[i].similarity >= Results(last)[i + 1].similarity

\* a retrieve with top_k = 1 returned one of two matching chunks that are
\* above the threshold
C16_Witness ==
    /\ last.op = "retrieve" /\ last.exc = ""
    /\ last.args.top_k = {1}
    /\ Len(Results(last)) = 1
    /\ Cardinality({it \in Candidates(last) :
                       10 - CosineDistance(QueryVector(last), it.embedding)
                          >= MinSimilarityInEffect(last)}) = 2

\* what the chunks give back when they are put together again: the first
\* chunk, then every other chunk without its first chunk_overlap characters
RECURSIVE Reassemble(_, _)
Reassemble(chunks, overlap) ==
    IF chunks = <<>> THEN <<>>
    ELSE IF Len(chunks) = 1 THEN chunks[1]
    ELSE LET most == SubSeq(chunks, 1, Len(chunks) - 1)
             end == chunks[Len(chunks)]
         IN  Reassemble(most, overlap) \o SubSeq(end, overlap + 1, Len(end))

(***************************************************************************)
(* C17.  The chunker returns for a non-empty text shorter than chunk_size  *)
(* exactly one chunk, equal to the text.                                   *)
(***************************************************************************)
C17_ShortTextIsOneChunk ==
    (/\ last.op = "split_text"
     /\ last.args.text # <<>>
     /\ Len(last.args.text) < _chunk_size)
    => last.ret = << <<last.args.text>> >>

(***************************************************************************)
(* C18.  Chunker round trip: the chunks of a text, concatenated in order   *)
(* with the first chunk_overlap characters of every chunk but the first    *)
(* removed, give back the text; no character is dropped.                   *)
(***************************************************************************)
C18_ChunksReassemble ==
    last.op = "split_text"
    => Reassemble(last.ret[1], _chunk_overlap) = last.args.text

(***************************************************************************)
(* C19.  No round trip to the index service carries an empty filter: the   *)
(* where argument of every query, get and delete is either omitted or a    *)
(* non-empty map; a retrieve or a count without user id omits it, and one  *)
(* with a user id passes a filter on that user id.                         *)
(***************************************************************************)
C19_NoEmptyFilter ==
    /\ \A i \in 1..Len(last.wheres) : \A w \in last.wheres[i] : DOMAIN w # {}
    /\ (last.op \in {"retrieve", "count_chunks"} /\ last.wheres # <<>>)
       => /\ last.args.user_id \in {{}, {""}} => last.wheres[1] = {}
          /\ \A u \in last.args.user_id :
                u # "" => \E w \in last.wheres[1] :
                             "user_id" \in DOMAIN w /\ w["user_id"] = u

\* a retrieve without user id queried the index
C19_Witness ==
    /\ last.op = "retrieve" /\ last.exc = ""
    /\ last.args.user_id = {}
    /\ InCalls(last, "query")
    /\ last.wheres = << {} >>

\* the number of round trips to the Embedding Provider a call made
ProviderRoundTrips(call) ==
    Cardinality({i \in 1..Len(call.calls) : call.calls[i] \in ProviderCalls})

(***************************************************************************)
(* C20.  An ingest_text makes at most one round trip to the Embedding      *)
(* Provider whatever the number of its chunks: exactly one when it stores  *)
(* chunks, and none when the text yields no chunk.                         *)
(***************************************************************************)
C20_OneEmbeddingRoundTrip ==
    last.op = "ingest_text"
    => LET pieces == split_text(last.args.text, _chunk_size, _chunk_overlap)
       IN  /\ ProviderRoundTrips(last) <= 1
           /\ Len(pieces) = 0 => ProviderRoundTrips(last) = 0
           /\ (last.exc = "" /\ Len(pieces) > 0) => ProviderRoundTrips(last) = 1


C22_OneRoundTripUnderRace ==
    \A k1 \in ThreadIds : \A k2 \in ThreadIds \ {k1} :
        (/\ threads[k1].op = "_get_or_create_collection"
         /\ threads[k2].op = "_get_or_create_collection"
         /\ threads[k1].tenant_id = threads[k2].tenant_id)
        => ~(InCalls(threads[k1], "get_or_create_collection")
             /\ InCalls(threads[k2], "get_or_create_collection"))

\* C23: ingest_text never deletes: every chunk id the tenant's collection held
\* before a call of ingest_text is still there after it, and the collections
\* of all other tenant ids hold after the call what they held before it.
C23_IngestOnlyAdds ==
    [][ (Idle /\ last'.op = "ingest_text")
        => LET t == last'.args.tenant_id
           IN  /\ {it.id : it \in Collection(chroma, t)}
                     \subseteq {it.id : it \in Collection(chroma', t)}
               /\ \A u \in TenantIds \ {t} :
                     Collection(chroma', u) = Collection(chroma, u) ]_vars

\* C24: no ingest_text runs with a chunk overlap that is not below the chunk
\* size: such a configuration is rejected when RAGService is constructed, or
\* the overlap is clamped.
C24_OverlapBelowSize ==
    last.op = "ingest_text" => _chunk_overlap < _chunk_size

\* C25: every record stored in the collection of a tenant id carries that
\* tenant id in its metadata, and the document_id and chunk_index of its
\* metadata are those of its storage id, whatever metadata the chunk carried
\* when it was handed to add_chunks.
C25_MetadataMatchesId ==
    \A t \in TenantIds : \A it \in Collection(chroma, t) :
        /\ it.metadata.tenant_id = t
        /\ it.metadata.document_id = it.id[1]
        /\ it.metadata.chunk_index = it.id[3]

\* C26: the mapping of tenant ids to collection names is injective: two
\* distinct tenant ids the repository has opened a collection for never
\* resolve to the same collection name, so they never share one collection.
C26_CollectionNameInjective ==
    \A t1 \in TenantIds : \A t2 \in TenantIds \ {t1} :
        (_collections[1][t1] # 0 /\ _collections[1][t2] # 0)
        => _get_collection_name(t1) # _get_collection_name(t2)

\* C27: no repository instance uses a cached handle of a collection that no
\* longer exists: whatever delete_tenant_collection calls went before, through
\* whichever worker process, an ingest_text, retrieve or count_chunks with
\* valid arguments, while the index service and the Embedding Provider
\* answer, succeeds.
C27_NoStaleHandle ==
    (last.op \in {"ingest_text", "retrieve", "count_chunks"} /\ last.args.fault = "none")
    => /\ last.exc = ""
       /\ HandleLive([chroma |-> chroma, _collections |-> _collections[last.args.worker]],
                     last.args.tenant_id)

\* C28: a file upload deletes the chunks stored under the document id before
\* it embeds and stores the new text, and does not roll back: when the
\* deletion succeeded and the embedding or the add then fails, the index holds
\* no chunk under that document id, whatever it held before the request.
C28_NoRollback ==
    (/\ last.op = "POST ingest/file"
     /\ InCalls(last, "delete")
     /\ InCalls(last, "embed_texts")
     /\ last.exc # "")
    => ChunksOf(chroma, last.args.tenant_id, last.args.document_id) = {}

\* the upload of a file that was indexed before failed after the deletion,
\* in the embedding or in the add
C28_Witness ==
    /\ last.op = "POST ingest/file"
    /\ last.before # {}
    /\ last.status = 500
    /\ InCalls(last, "delete")
    /\ last.args.fault = "embed_fail" \/ InCalls(last, "add")
    /\ ChunksOf(chroma, last.args.tenant_id, last.args.document_id) = {}

\* C29: file uploads that run concurrently do not leak content across
\* tenants: when an upload has answered with success, the chunks stored under
\* its tenant id and document id are the pieces of the text that this request
\* uploaded.
C29_UploadIndexesOwnContent ==
    \A k \in ThreadIds :
        (threads[k].op = "ingest_file" /\ threads[k].pc = "return" /\ threads[k].exc = "")
        => LET pieces == split_text(threads[k].content, _chunk_size, _chunk_overlap)
               document_id == FileDocumentId(threads[k].tenant_id, threads[k].filename)
           IN  {it.document : it \in ChunksOf(chroma, threads[k].tenant_id, document_id)}
                 = {pieces[i] : i \in 1..Len(pieces)}

\* C30: WhatsApp deduplication is at most once: of the webhook deliveries in
\* progress that carry the same message id, parse_incoming_message returns a
\* message to process for at most one.
C30_AtMostOnce ==
    \A k1 \in ThreadIds : \A k2 \in ThreadIds \ {k1} :
        (/\ threads[k1].op = "parse_incoming_message"
         /\ threads[k2].op = "parse_incoming_message"
         /\ threads[k1].message_id = threads[k2].message_id
         /\ threads[k1].pc = "return"
         /\ threads[k2].pc = "return")
        => threads[k1].ret = <<>> \/ threads[k2].ret = <<>>

====
